---- MODULE Spec2Model ----
(***************************************************************************)
(* Model of miio/airconditioningcompanion.py: the template registry        *)
(* DEVICE_COMMAND_PRESETS, the command encoder send_configuration and the  *)
(* lazily decoded status container AirConditioningCompanionStatus.         *)
(*                                                                         *)
(* Python strings are sequences of one-character strings.  A Python value  *)
(* whose type matters to the code (an Enum member, a bool, the int held by *)
(* an Enum's .value, a str) carries its type, because str.replace and      *)
(* attribute access raise on the wrong one.  A call that may raise yields  *)
(* a result [err, val]: err = "none" and the value, or the exception name. *)
(***************************************************************************)
EXTENDS Integers, Sequences, FiniteSets, TLC

VARIABLES registry, pc, args, configuration, result, transport, snapshot,
          read, calls

vars == <<registry, pc, args, configuration, result, transport, snapshot,
          read, calls>>

----------------------------------------------------------------------------
(* Bounds of the model *)

\* target temperatures passed to send_configuration
MinTemp == 15
MaxTemp == 30
\* longest state field response[1] the device returns
MaxStateLen == 9
\* calls recorded in one behaviour of the concurrent specification
MaxCalls == 3

Callers == {"c1", "c2"}

----------------------------------------------------------------------------
(* Python values and exceptions *)

Ok(v) == [err |-> "none", val |-> v]
Raise(e) == [err |-> e]

\* the call that gave r raised
Raised(r) == r.err # "none"

PyInt(n) == [ty |-> "int", v |-> n]
PyStr(s) == [ty |-> "str", v |-> s]
PyFalse == [cls |-> "bool", value |-> 0]

Min(a, b) == IF a < b THEN a ELSE b

\* s[a:b] for 0 <= a <= b: the bounds are clamped to the length
Slice(s, a, b) == SubSeq(s, Min(a, Len(s)) + 1, Min(b, Len(s)))

----------------------------------------------------------------------------
(* Enum domains *)

OperationMode == [Heat |-> 0, Cool |-> 1, Auto |-> 2, Dehumidify |-> 3,
                  Ventilate |-> 4]
FanSpeed == [Low |-> 0, Medium |-> 1, High |-> 2, Auto |-> 3]
SwingMode == [On |-> 0, Off |-> 1]
Power == [On |-> 1, Off |-> 0]

EnumClasses == {"OperationMode", "FanSpeed", "SwingMode", "Power"}

\* the member `name` of enum class cls
Member(cls, E, name) == [cls |-> cls, name |-> name, value |-> E[name]]
Members(cls, E) == {Member(cls, E, n) : n \in DOMAIN E}

\* cls(v), the lookup of a member by value: ValueError when there is none
EnumCall(cls, E, v) ==
    IF \E n \in DOMAIN E : E[n] = v
    THEN Ok(Member(cls, E, CHOOSE n \in DOMAIN E : E[n] = v))
    ELSE Raise("ValueError")

\* obj.value: only Enum members have the attribute; it is an int
getattr_value(obj) ==
    IF obj.cls \in EnumClasses THEN Ok(PyInt(obj.value))
    ELSE Raise("AttributeError")

\* obj == False: a plain Enum member is equal only to itself
py_eq_False(obj) == obj.cls = "bool" /\ obj.value = 0

----------------------------------------------------------------------------
(* The template registry *)

POWER_OFF == "off"

fallback == <<"f","a","l","l","b","a","c","k">>
media_1 == <<"0","1","8","0","1","1","1","1","1","1">>
gree_1 == <<"0","1","8","0","2","2","2","2","2","1">>
gree_2 == <<"0","1","0","0","0","1","0","7","2","7">>
gree_8 == <<"0","1","0","0","0","0","4","7","9","5">>
haier_1 == <<"0","1","8","0","3","3","3","3","3","1">>
aux_1 == <<"0","1","8","0","6","6","6","6","6","1">>
chigo_1 == <<"0","1","8","0","7","7","7","7","7","1">>

base_a0 == <<"p","o","m","o","w","i","s","w","t","t","a","0">>
base_02 == <<"p","o","m","o","w","i","s","w","t","t","0","2">>
base_12 == <<"p","o","m","o","w","i","s","w","t","t","1","2">>
base_gree_2 ==
    <<"p","o","m","o","w","i","s","w","t","t","1","1","0","0","1","9","0",
      "t","1","t","2","0","5","0","0","2","1","0","2","0","0","0","t","7",
      "t","0","1","9","0","t","1","t","2","0","7","0","0","2","0","0","0",
      "0","0","0","t","4","t","0">>
off_gree_2 ==
    <<"0","1","0","1","1","1","0","1","0","0","4","0","0","0","2","0","5",
      "0","0","2","1","1","2","0","0","0","D","0","4","0","0","0","2","0",
      "7","0","0","2","0","0","0","0","0","0","A","0">>
base_gree_8 ==
    <<"p","o","m","o","w","i","s","w","t","t","0","1","0","0","0","9","0",
      "9","0","0","0","0","5","0","0","2">>

RegistryKeys == {fallback, media_1, gree_1, gree_2, gree_8, haier_1, aux_1,
                 chigo_1}

DEVICE_COMMAND_PRESETS ==
    [k \in RegistryKeys |->
        CASE k = fallback -> [deviceType |-> "generic", base |-> base_a0]
          [] k = media_1 -> [deviceType |-> "media_1", base |-> base_02]
          [] k = gree_1 -> [deviceType |-> "gree_1", base |-> base_02]
          [] k = gree_2 -> [deviceType |-> "gree_2", base |-> base_gree_2,
                            off |-> off_gree_2]
          [] k = gree_8 -> [deviceType |-> "gree_8", base |-> base_gree_8]
          [] k = haier_1 -> [deviceType |-> "haier_1", base |-> base_12]
          [] k = aux_1 -> [deviceType |-> "aux_1", base |-> base_12]
          [] k = chigo_1 -> [deviceType |-> "chigo_1", base |-> base_12]]

----------------------------------------------------------------------------
(* str.replace, hex, str.upper *)

\* every non-overlapping occurrence of old in s, left to right, becomes new
RECURSIVE replace(_, _, _)
replace(s, old, new) ==
    IF Len(s) < Len(old) THEN s
    ELSE IF SubSeq(s, 1, Len(old)) = old
         THEN new \o replace(SubSeq(s, Len(old) + 1, Len(s)), old, new)
         ELSE <<s[1]>> \o replace(Tail(s), old, new)

\* s.replace(old, new): the replacement must be a str
str_replace(s, old, new) ==
    IF new.ty # "str" THEN Raise("TypeError")
    ELSE Ok(replace(s, old, new.v))

HexDigits == <<"0","1","2","3","4","5","6","7","8","9","a","b","c","d","e",
               "f">>

RECURSIVE hex_digits(_)
hex_digits(n) ==
    IF n < 16 THEN <<HexDigits[n + 1]>>
    ELSE hex_digits(n \div 16) \o <<HexDigits[(n % 16) + 1]>>

\* hex(n): "0x..." and, for a negative n, "-0x..."
hex(n) ==
    IF n < 0 THEN <<"-","0","x">> \o hex_digits(-n)
    ELSE <<"0","x">> \o hex_digits(n)

upper_char(c) ==
    CASE c = "a" -> "A" [] c = "b" -> "B" [] c = "c" -> "C"
      [] c = "d" -> "D" [] c = "e" -> "E" [] c = "f" -> "F"
      [] c = "x" -> "X" [] OTHER -> c

upper(s) == [i \in 1..Len(s) |-> upper_char(s[i])]

\* hex(n)[2:]
hex_tail(n) == Slice(hex(n), 2, Len(hex(n)))

----------------------------------------------------------------------------
(* AirConditioningCompanion.send_configuration and send_command *)

\* Device.send(method, params): one call on the transport, with the reply
\* the device gives to it
send(log, method, params, reply) ==
    Append(log, [method |-> method, params |-> params, reply |-> reply])

\* the command sent a second time
send_command_twice(log, command, reply) ==
    send(send(log, "send_cmd", <<command>>, reply),
         "send_cmd", <<command>>, reply)

\* send_command(command): send("send_cmd", [str(command)]); str() of a str
\* is the str
send_command(log, command, reply) ==
    send(log, "send_cmd", <<command>>, reply)

\* "Static turn off command available?"
static_off(reg, model, power) ==
    /\ py_eq_False(power)
    /\ model \in DOMAIN reg
    /\ POWER_OFF \in DOMAIN reg[model]

\* the command of the static turn off
off_configuration(reg, model) == model \o reg[model][POWER_OFF]

\* model + the model's base template, or the fallback's
base_configuration(reg, model) ==
    IF model \in DOMAIN reg THEN model \o reg[model].base
    ELSE model \o reg[fallback].base

\* s.replace(token, obj.value)
replace_value(s, token, obj) ==
    LET v == getattr_value(obj)
    IN  IF Raised(v) THEN v ELSE str_replace(s, token, v.val)

\* hex((offset + int(target_temperature) - 17) % 16)[2:].upper()
offset_digit(offset, target_temperature) ==
    upper(hex_tail((offset + target_temperature - 17) % 16))

\* the replacements of 'tt', 't1t', 't4t' and 't7t'
substitute_temperature(s, target_temperature) ==
    LET T == target_temperature
        r1 == str_replace(s, <<"t","t">>, PyStr(hex_tail(T)))
        r2 == IF Raised(r1) THEN r1
              ELSE str_replace(r1.val, <<"t","1","t">>,
                               PyStr(offset_digit(1, T)))
        r3 == IF Raised(r2) THEN r2
              ELSE str_replace(r2.val, <<"t","4","t">>,
                               PyStr(offset_digit(4, T)))
    IN  IF Raised(r3) THEN r3
        ELSE str_replace(r3.val, <<"t","7","t">>, PyStr(offset_digit(7, T)))

\* the token replacements, in the order of the code; the first that raises
\* ends the call
substitute(s, power, operation_mode, target_temperature, fan_speed, swing_mode) ==
    LET r1 == replace_value(s, <<"p","o">>, power)
        r2 == IF Raised(r1) THEN r1
              ELSE replace_value(r1.val, <<"m","o">>, operation_mode)
        r3 == IF Raised(r2) THEN r2
              ELSE replace_value(r2.val, <<"w","i">>, fan_speed)
        r4 == IF Raised(r3) THEN r3
              ELSE replace_value(r3.val, <<"s","w">>, swing_mode)
    IN  IF Raised(r4) THEN r4
        ELSE substitute_temperature(r4.val, target_temperature)

----------------------------------------------------------------------------
(* AirConditioningCompanionStatus: every property parses self.data anew *)

digit_value(c) ==
    CASE c = "0" -> 0 [] c = "1" -> 1 [] c = "2" -> 2 [] c = "3" -> 3
      [] c = "4" -> 4 [] c = "5" -> 5 [] c = "6" -> 6 [] c = "7" -> 7
      [] c = "8" -> 8 [] c = "9" -> 9
      [] c \in {"a", "A"} -> 10 [] c \in {"b", "B"} -> 11
      [] c \in {"c", "C"} -> 12 [] c \in {"d", "D"} -> 13
      [] c \in {"e", "E"} -> 14 [] c \in {"f", "F"} -> 15
      [] OTHER -> 99

RECURSIVE digits_value(_, _)
digits_value(s, base) ==
    IF s = <<>> THEN 0
    ELSE digits_value(SubSeq(s, 1, Len(s) - 1), base) * base
         + digit_value(s[Len(s)])

\* the upper case digits refused
int_parse_lower(s, base) ==
    LET signed == s # <<>> /\ s[1] \in {"-", "+"}
        body == IF signed THEN Tail(s) ELSE s
    IN  IF body = <<>>
           \/ \E i \in 1..Len(body) :
                \/ digit_value(body[i]) >= base
                \/ body[i] \in {"A", "B", "C", "D", "E", "F"}
        THEN Raise("ValueError")
        ELSE Ok(IF signed /\ s[1] = "-" THEN 0 - digits_value(body, base)
                ELSE digits_value(body, base))

\* int(s, base) of a string without blanks and underscores: an optional
\* sign, then at least one digit of the base
int_parse(s, base) ==
    LET signed == s # <<>> /\ s[1] \in {"-", "+"}
        body == IF signed THEN Tail(s) ELSE s
    IN  IF body = <<>>
           \/ \E i \in 1..Len(body) : digit_value(body[i]) >= base
        THEN Raise("ValueError")
        ELSE Ok(IF signed /\ s[1] = "-" THEN 0 - digits_value(body, base)
                ELSE digits_value(body, base))

air_condition_power(data) == Ok(data[3])

air_condition_model(data) == Ok(Slice(data[1], 0, 2) \o Slice(data[1], 8, 16))

\* the character indexed, not sliced: IndexError on a short state field
power_indexed(data) ==
    IF Len(data[2]) < 3 THEN Raise("IndexError")
    ELSE Ok(IF data[2][3] = "1" THEN "on" ELSE "off")

power(data) == Ok(IF Slice(data[2], 2, 3) = <<"1">> THEN "on" ELSE "off")

is_on(data) ==
    LET p == power(data)
    IN  IF Raised(p) THEN p ELSE Ok(p.val = "on")

\* the hex digits parsed as decimal ones
temperature_decimal(data) == int_parse(Slice(data[2], 6, 8), 10)

temperature(data) == int_parse(Slice(data[2], 6, 8), 16)

swing_mode(data) == Ok(Slice(data[2], 5, 6) = <<"0">>)

\* None, as the Optional return type has it, for a speed that is no member
fan_speed_or_none(data) ==
    LET speed == int_parse(Slice(data[2], 4, 5), 10)
    IN  IF Raised(speed) THEN speed
        ELSE IF \E n \in DOMAIN FanSpeed : FanSpeed[n] = speed.val
             THEN EnumCall("FanSpeed", FanSpeed, speed.val)
             ELSE Ok([cls |-> "NoneType"])

fan_speed(data) ==
    LET speed == int_parse(Slice(data[2], 4, 5), 10)
    IN  IF Raised(speed) THEN speed
        ELSE EnumCall("FanSpeed", FanSpeed, speed.val)

mode(data) ==
    LET m == int_parse(Slice(data[2], 3, 4), 10)
    IN  IF Raised(m) THEN m
        ELSE EnumCall("OperationMode", OperationMode, m.val)

Fields == {"air_condition_power", "air_condition_model", "power", "is_on",
           "temperature", "swing_mode", "fan_speed", "mode"}

\* reading property f of a status built on data
Property(f, data) ==
    CASE f = "air_condition_power" -> air_condition_power(data)
      [] f = "air_condition_model" -> air_condition_model(data)
      [] f = "power" -> power(data)
      [] f = "is_on" -> is_on(data)
      [] f = "temperature" -> temperature(data)
      [] f = "swing_mode" -> swing_mode(data)
      [] f = "fan_speed" -> fan_speed(data)
      [] f = "mode" -> mode(data)

----------------------------------------------------------------------------
(* Inputs *)

Unknown == <<"9","9","9","9","9","9","9","9","9","9">>

Models == RegistryKeys \cup {Unknown}

\* the power argument: a member of Power or, against the annotation, the
\* False the code compares it with
Powers == Members("Power", Power) \cup {PyFalse}

Temperatures == MinTemp..MaxTemp

Args(ms, ps, os, ts, fs, ss) ==
    [model : ms, power : ps, operation_mode : os, target_temperature : ts,
     fan_speed : fs, swing_mode : ss]

AllArgs == Args(Models, Powers, Members("OperationMode", OperationMode),
                Temperatures, Members("FanSpeed", FanSpeed),
                Members("SwingMode", SwingMode))

\* the arguments of the calls that run concurrently
ConcArgs == Args({gree_2, Unknown}, {Member("Power", Power, "Off"), PyFalse},
                 {Member("OperationMode", OperationMode, "Cool")}, {24},
                 {Member("FanSpeed", FanSpeed, "Auto")},
                 {Member("SwingMode", SwingMode, "Off")})

\* the example response of the source: model field, state field, power
ExampleModelField ==
    <<"0","1","0","5","0","0","9","7","8","0","2","2","2","2","2","1","0",
      "2">>
ExampleStateField ==
    <<"0","1","0","2","0","1","1","9","0","2","8","0","2","2","2","2","2",
      "1">>
ExampleResponse == <<ExampleModelField, ExampleStateField, <<"2">>>>

PowerChars == {"0", "1"}
ModeChars == {"1", "2", "4", "5", "g"}
FanChars == {"0", "3", "4", "9", "g"}
SwingChars == {"0", "1"}
TempChars == {"0", "1", "9", "a", "F", "g", "-"}

\* a state field of length n: the example's, with the characters at the
\* indices 2..7 chosen
StateField(n, p, m, f, w, t1, t2) ==
    SubSeq(<<"0", "1", p, m, f, w, t1, t2>>
           \o SubSeq(ExampleStateField, 9, Len(ExampleStateField)), 1, n)

StateFields ==
    {StateField(n, p, m, f, w, t1, t2) :
        n \in 0..MaxStateLen, p \in PowerChars, m \in ModeChars,
        f \in FanChars, w \in SwingChars, t1 \in TempChars, t2 \in TempChars}

\* the responses to get_model_and_state
Responses ==
    {<<ExampleModelField, sf, <<"2">>>> : sf \in StateFields}
    \cup {ExampleResponse, <<<<"0","1","0","5">>, ExampleStateField, <<"0">>>>}

ConcResponses == {ExampleResponse}

----------------------------------------------------------------------------
(* State and operations *)

NoArgs == [none |-> TRUE]
NoResult == [none |-> TRUE]
NoData == <<>>
NoRead == [field |-> "none", after_error |-> FALSE]

Init ==
    /\ registry = DEVICE_COMMAND_PRESETS
    /\ pc = [c \in Callers |-> "idle"]
    /\ args = [c \in Callers |-> NoArgs]
    /\ configuration = [c \in Callers |-> <<>>]
    /\ result = [c \in Callers |-> NoResult]
    /\ transport = <<>>
    /\ snapshot = [c \in Callers |-> NoData]
    /\ read = [c \in Callers |-> NoRead]
    /\ calls = <<>>

InFlight == {c \in Callers : pc[c] \in {"send_configuration", "substitute"}}

MayCall(c) ==
    /\ pc[c] = "idle"
    /\ Len(calls) + Cardinality(InFlight) < MaxCalls

\* caller c enters send_configuration with arguments among as
CallSendConfiguration(c, as) ==
    /\ MayCall(c)
    /\ pc' = [pc EXCEPT ![c] = "send_configuration"]
    /\ \E a \in as : args' = [args EXCEPT ![c] = a]
    /\ result' = [result EXCEPT ![c] = NoResult]
    /\ UNCHANGED <<registry, configuration, transport, snapshot, read, calls>>

\* the call of c ends: by the exception err, or with the command sent
Finish(c, err, command) ==
    /\ pc' = [pc EXCEPT ![c] = "done"]
    /\ transport' = IF err = "none"
                    THEN send_command(transport, command, <<"ok">>)
                    ELSE transport
    /\ result' = [result EXCEPT ![c] = [err |-> err, command |-> command]]
    /\ calls' = Append(calls, [op |-> "send_configuration", by |-> c,
                               args |-> args[c], err |-> err,
                               command |-> command])

\* the off template popped from the registry entry by the static turn off
SelectTemplate_pop(c) ==
    /\ pc[c] = "send_configuration"
    /\ IF static_off(registry, args[c].model, args[c].power)
       THEN /\ Finish(c, "none", off_configuration(registry, args[c].model))
            /\ registry' = [registry EXCEPT ![args[c].model] =
                    [deviceType |-> @.deviceType, base |-> @.base]]
            /\ UNCHANGED configuration
       ELSE /\ configuration' = [configuration EXCEPT ![c] =
                    base_configuration(registry, args[c].model)]
            /\ pc' = [pc EXCEPT ![c] = "substitute"]
            /\ UNCHANGED <<registry, result, transport, calls>>
    /\ UNCHANGED <<args, snapshot, read>>

\* the static turn off, or the choice of the template
SelectTemplate(c) ==
    /\ pc[c] = "send_configuration"
    /\ IF static_off(registry, args[c].model, args[c].power)
       THEN /\ Finish(c, "none", off_configuration(registry, args[c].model))
            /\ UNCHANGED configuration
       ELSE /\ configuration' = [configuration EXCEPT ![c] =
                    base_configuration(registry, args[c].model)]
            /\ pc' = [pc EXCEPT ![c] = "substitute"]
            /\ UNCHANGED <<result, transport, calls>>
    /\ UNCHANGED <<registry, args, snapshot, read>>

\* the token replacements and the send_command of their result
Encode(c) ==
    /\ pc[c] = "substitute"
    /\ LET a == args[c]
           r == substitute(configuration[c], a.power, a.operation_mode,
                           a.target_temperature, a.fan_speed, a.swing_mode)
       IN  IF r.err = "none" THEN Finish(c, "none", r.val)
           ELSE Finish(c, r.err, <<>>)
    /\ UNCHANGED <<registry, args, configuration, snapshot, read>>

\* status(): one get_model_and_state, whose response (among rs) is wrapped
\* undecoded
Status(c, rs) ==
    /\ MayCall(c)
    /\ \E r \in rs :
        /\ transport' = send(transport, "get_model_and_state", <<>>, r)
        /\ snapshot' = [snapshot EXCEPT ![c] = r]
        /\ calls' = Append(calls, [op |-> "status", by |-> c,
                                   response |-> r])
    /\ pc' = [pc EXCEPT ![c] = "status"]
    /\ result' = [result EXCEPT ![c] = [err |-> "none"]]
    /\ read' = [read EXCEPT ![c] = NoRead]
    /\ UNCHANGED <<registry, args, configuration>>

\* the caller reads property f of the status it holds
ReadProperty(c, f) ==
    /\ pc[c] = "status"
    /\ read' = [read EXCEPT ![c] =
                   [field |-> f, out |-> Property(f, snapshot[c]),
                    after_error |->
                        /\ read[c].field # "none"
                        /\ (read[c].after_error \/ read[c].out.err # "none")]]
    /\ UNCHANGED <<registry, pc, args, configuration, result, transport,
                   snapshot, calls>>

\* the caller drops what the call gave it
Return(c) ==
    /\ pc[c] \in {"done", "status"}
    /\ pc' = [pc EXCEPT ![c] = "idle"]
    /\ args' = [args EXCEPT ![c] = NoArgs]
    /\ configuration' = [configuration EXCEPT ![c] = <<>>]
    /\ result' = [result EXCEPT ![c] = NoResult]
    /\ snapshot' = [snapshot EXCEPT ![c] = NoData]
    /\ read' = [read EXCEPT ![c] = NoRead]
    /\ UNCHANGED <<registry, transport, calls>>

\* any number of calls of the callers, interleaved
Next ==
    \E c \in Callers :
        \/ CallSendConfiguration(c, ConcArgs)
        \/ SelectTemplate(c)
        \/ Encode(c)
        \/ Status(c, ConcResponses)
        \/ \E f \in Fields : ReadProperty(c, f)
        \/ Return(c)

Spec == Init /\ [][Next]_vars

\* one send_configuration, over all the arguments
NextEncode ==
    \/ CallSendConfiguration("c1", AllArgs)
    \/ SelectTemplate("c1")
    \/ Encode("c1")

SpecEncode == Init /\ [][NextEncode]_vars

\* one status, over all the responses, and the reads of its properties
NextDecode ==
    \/ Status("c1", Responses)
    \/ \E f \in Fields : ReadProperty("c1", f)

SpecDecode == Init /\ [][NextDecode]_vars

----------------------------------------------------------------------------
(* What the claims say of the encoder *)

On == Member("Power", Power, "On")
Off == Member("Power", Power, "Off")
Cool == Member("OperationMode", OperationMode, "Cool")

Decimal(n) == <<HexDigits[n + 1]>>

\* the command the specification describes: every token of the working
\* string replaced by the digits of the value it stands for
IntendedCommand(s, a) ==
    LET T == a.target_temperature
        s1 == replace(s, <<"p","o">>, Decimal(a.power.value))
        s2 == replace(s1, <<"m","o">>, Decimal(a.operation_mode.value))
        s3 == replace(s2, <<"w","i">>, Decimal(a.fan_speed.value))
        s4 == replace(s3, <<"s","w">>, Decimal(a.swing_mode.value))
        s5 == replace(s4, <<"t","t">>, hex_digits(T))
        s6 == replace(s5, <<"t","1","t">>, upper(hex_digits((1 + T - 17) % 16)))
        s7 == replace(s6, <<"t","4","t">>, upper(hex_digits((4 + T - 17) % 16)))
    IN  replace(s7, <<"t","7","t">>, upper(hex_digits((7 + T - 17) % 16)))

Contains(s, token) ==
    \E i \in 1..(Len(s) - Len(token) + 1) :
        SubSeq(s, i, i + Len(token) - 1) = token

Tokens == {<<"p","o">>, <<"m","o">>, <<"w","i">>, <<"s","w">>, <<"t","t">>}

HasOffTemplate(model) ==
    /\ model \in DOMAIN DEVICE_COMMAND_PRESETS
    /\ POWER_OFF \in DOMAIN DEVICE_COMMAND_PRESETS[model]

\* the last transport call is the send_cmd of exactly the command
SentCommand(command) ==
    /\ transport # <<>>
    /\ transport[Len(transport)].method = "send_cmd"
    /\ transport[Len(transport)].params = <<command>>

\* C1: for a model whose registry entry has an off template, a
\* send_configuration with power = Power.Off hands model + off template to
\* send_cmd, whatever the mode, fan speed, swing mode and temperature.
C1_StaticOffForPowerOff ==
    \A c \in Callers :
        (/\ pc[c] = "done"
         /\ args[c].power.cls = "Power"
         /\ args[c].power = Off
         /\ HasOffTemplate(args[c].model))
        => /\ result[c].err = "none"
           /\ result[c].command
                = args[c].model \o DEVICE_COMMAND_PRESETS[args[c].model].off
           /\ SentCommand(result[c].command)

\* the shortcut the claims speak of: power is Off and the entry has an off
\* template
ShortcutApplies(a) == a.power.value = 0 /\ HasOffTemplate(a.model)

\* C2: for a model of the registry, members of the four enums and a
\* temperature in 17..30, when the shortcut does not apply the call ends
\* without error and hands model + base template with all tokens replaced;
\* the command starts with the model id and holds none of po, mo, wi, sw, tt.
C2_TokensSubstituted ==
    \A c \in Callers :
        (/\ pc[c] = "done"
         /\ args[c].power.cls = "Power"
         /\ args[c].model \in DOMAIN DEVICE_COMMAND_PRESETS
         /\ args[c].target_temperature \in 17..30
         /\ ~ShortcutApplies(args[c]))
        => /\ result[c].err = "none"
           /\ result[c].command
                = IntendedCommand(
                    args[c].model
                      \o DEVICE_COMMAND_PRESETS[args[c].model].base, args[c])
           /\ SubSeq(result[c].command, 1, Len(args[c].model)) = args[c].model
           /\ \A t \in Tokens : ~Contains(result[c].command, t)
           /\ SentCommand(result[c].command)

\* C3: for a model id that is no key of the registry the call never fails
\* for lack of a template: it hands model + the fallback's base template
\* with all tokens replaced; ("9999999999", On, Cool, 24, Auto, Off) hands
\* "9999999999" + "1131" + "18" + "a0".
C3_FallbackTemplate ==
    \A c \in Callers :
        (/\ pc[c] = "done"
         /\ args[c].power.cls = "Power"
         /\ args[c].model \notin DOMAIN DEVICE_COMMAND_PRESETS)
        => /\ result[c].err = "none"
           /\ result[c].command
                = IntendedCommand(args[c].model \o base_a0, args[c])
           /\ SentCommand(result[c].command)
           /\ (/\ args[c].model = Unknown
               /\ args[c].power = On
               /\ args[c].operation_mode = Cool
               /\ args[c].target_temperature = 24
               /\ args[c].fan_speed.name = "Auto"
               /\ args[c].swing_mode.name = "Off")
              => result[c].command
                   = Unknown \o <<"1","1","3","1","1","8","a","0">>

\* C10: for model "0100010727" with power On and any integer temperature T,
\* every t1t, t4t, t7t of the command is replaced by the one uppercase hex
\* digit of (1 + T - 17) mod 16, (4 + T - 17) mod 16, (7 + T - 17) mod 16.
C10_OffsetDigits ==
    \A c \in Callers :
        (/\ pc[c] = "done"
         /\ args[c].model = gree_2
         /\ args[c].power.cls = "Power"
         /\ args[c].power = On)
        => /\ result[c].err = "none"
           /\ result[c].command
                = IntendedCommand(gree_2 \o base_gree_2, args[c])
           /\ SentCommand(result[c].command)

----------------------------------------------------------------------------
(* What the claims say of the status *)

\* caller c holds a status and has read one of its properties
HasRead(c) == pc[c] = "status" /\ read[c].field # "none"

StateOf(c) == snapshot[c][2]

IsDecimal(ch) == digit_value(ch) < 10
IsHex(ch) == digit_value(ch) < 16

\* the character at index i (from 0) of s is a decimal digit outside 0..hi
DigitOutside(s, i, hi) ==
    Len(s) > i /\ IsDecimal(s[i + 1]) /\ digit_value(s[i + 1]) > hi

\* the character at index i (from 0) of s is a decimal digit in 0..hi
DigitWithin(s, i, hi) == Len(s) > i /\ digit_value(s[i + 1]) <= hi

\* the status calls of caller c, and the last of them
StatusCallsOf(c) ==
    {i \in DOMAIN calls : calls[i].op = "status" /\ calls[i].by = c}
LastStatusOf(c) ==
    calls[CHOOSE i \in StatusCallsOf(c) : \A j \in StatusCallsOf(c) : j <= i]

\* the value the example response is said to decode to, as first stated
ExampleAsStated(f) ==
    CASE f = "power" -> Ok("on")
      [] f = "is_on" -> Ok(TRUE)
      [] f = "temperature" -> Ok(25)
      [] f = "swing_mode" -> Ok(FALSE)
      [] f = "fan_speed" -> Ok(Member("FanSpeed", FanSpeed, "Low"))
      [] f = "mode" -> Ok(Cool)
      [] f = "air_condition_model" ->
            Ok(<<"0","1","9","7","8","0","2","2","2","2">>)
      [] f = "air_condition_power" -> Ok(<<"2">>)

\* the value it decodes to: index 2 of the state field is '0', index 3 is
\* '2', and [8,16) of the model field is "80222221"
ExampleDecoded(f) ==
    CASE f = "power" -> Ok("off")
      [] f = "is_on" -> Ok(FALSE)
      [] f = "mode" -> Ok(Member("OperationMode", OperationMode, "Auto"))
      [] f = "air_condition_model" -> Ok(gree_1)
      [] OTHER -> ExampleAsStated(f)

\* C4 as stated: the example response decodes to power "on", temperature
\* 25, swing_mode False, fan speed Low, mode Cool and model "0197802222".
C4_ExampleAsStated ==
    \A c \in Callers :
        (HasRead(c) /\ snapshot[c] = ExampleResponse)
        => read[c].out = ExampleAsStated(read[c].field)

\* C4 amended: the example response decodes to power "off" (is_on False),
\* temperature 25, swing_mode False, fan speed Low, mode Auto and model
\* "01" + "80222221", read at the indices the claim names.
C4_ExampleDecoded ==
    \A c \in Callers :
        (HasRead(c) /\ snapshot[c] = ExampleResponse)
        => read[c].out = ExampleDecoded(read[c].field)

C4_Witness ==
    /\ HasRead("c1")
    /\ snapshot["c1"] = ExampleResponse
    /\ read["c1"].field = "mode"
    /\ read["c1"].out.val.name = "Auto"

\* the properties that no digit of the state field can make fail
PlainFields == {"air_condition_power", "air_condition_model", "power",
                "is_on", "swing_mode"}

\* C5 as stated: with a digit outside 0..3 at index 4, or outside 0..4 at
\* index 3, the status query returns no snapshot, so that no field of the
\* response can be read.
C5_NoSnapshot ==
    \A c \in Callers :
        (/\ StatusCallsOf(c) # {}
         /\ \/ DigitOutside(LastStatusOf(c).response[2], 4, 3)
            \/ DigitOutside(LastStatusOf(c).response[2], 3, 4))
        => (pc[c] # "status" /\ snapshot[c] = NoData)

\* C5 amended: with such a digit the status query still returns a snapshot
\* of the response; reading fan_speed (index 4) or mode (index 3) on it
\* raises ValueError each time, and power, is_on, swing_mode,
\* air_condition_power and air_condition_model return their values before
\* and after that failure.
C5_FailsOnRead ==
    \A c \in Callers :
        pc[c] = "status"
        => /\ snapshot[c] = LastStatusOf(c).response
           /\ (DigitOutside(StateOf(c), 4, 3) /\ read[c].field = "fan_speed")
              => read[c].out.err = "ValueError"
           /\ (DigitOutside(StateOf(c), 3, 4) /\ read[c].field = "mode")
              => read[c].out.err = "ValueError"
           /\ read[c].field \in PlainFields => read[c].out.err = "none"

C5_Witness ==
    /\ HasRead("c1")
    /\ DigitOutside(StateOf("c1"), 4, 3)
    /\ read["c1"].field = "power"
    /\ read["c1"].after_error

StateFieldProperties == {"power", "is_on", "temperature", "swing_mode",
                         "fan_speed", "mode"}

\* C6 as stated: with a state field shorter than 8 characters no property
\* derived from it returns a value.
C6_MalformedStatus ==
    \A c \in Callers :
        (/\ HasRead(c)
         /\ Len(StateOf(c)) < 8
         /\ read[c].field \in StateFieldProperties)
        => read[c].out.err # "none"

\* C6 amended: there is no length check.  With a state field shorter than 8
\* characters power, is_on and swing_mode return a value ("off", False,
\* False when their index is missing), and temperature, fan_speed and mode
\* raise ValueError when no character is at their index (length at most 6,
\* 4 and 3); at length 7 temperature is the value of the one hex digit at
\* index 6.
C6_ShortStateField ==
    \A c \in Callers :
        (HasRead(c) /\ Len(StateOf(c)) < 8)
        => LET s == StateOf(c)
               f == read[c].field
               out == read[c].out
               on == Len(s) > 2 /\ s[3] = "1"
           IN  /\ f = "power" => out = Ok(IF on THEN "on" ELSE "off")
               /\ f = "is_on" => out = Ok(on)
               /\ f = "swing_mode" => out = Ok(Len(s) > 5 /\ s[6] = "0")
               /\ (f = "temperature" /\ Len(s) <= 6) => out.err = "ValueError"
               /\ (f = "temperature" /\ Len(s) = 7 /\ IsHex(s[7]))
                  => out = Ok(digit_value(s[7]))
               /\ (f = "fan_speed" /\ Len(s) <= 4) => out.err = "ValueError"
               /\ (f = "mode" /\ Len(s) <= 3) => out.err = "ValueError"

C6_Witness ==
    /\ HasRead("c1")
    /\ Len(StateOf("c1")) = 2
    /\ read["c1"].field = "power"
    /\ read["c1"].out.err = "none"

\* the state field is well formed as the claim has it: 8 characters or
\* more, the fan digit in 0..3 and the mode digit in 0..4
DigitsInRange(s) ==
    Len(s) >= 8 /\ DigitWithin(s, 4, 3) /\ DigitWithin(s, 3, 4)

\* C7 as stated: with 8 characters or more, the fan digit in 0..3 and the
\* mode digit in 0..4, whatever the other characters, every property
\* returns a value.
C7_NeverFails ==
    \A c \in Callers :
        (HasRead(c) /\ DigitsInRange(StateOf(c)))
        => read[c].out.err = "none"

\* C7 amended: ... and the two characters at [6,8) hexadecimal digits,
\* every property returns a value; temperature is 16 * the first + the
\* second.
C7_NeverFailsOnHex ==
    \A c \in Callers :
        (/\ HasRead(c)
         /\ DigitsInRange(StateOf(c))
         /\ IsHex(StateOf(c)[7])
         /\ IsHex(StateOf(c)[8]))
        => /\ read[c].out.err = "none"
           /\ read[c].field = "temperature"
              => read[c].out.val = 16 * digit_value(StateOf(c)[7])
                                    + digit_value(StateOf(c)[8])

C7_Witness ==
    /\ HasRead("c1")
    /\ DigitsInRange(StateOf("c1"))
    /\ StateOf("c1")[7] = "a"
    /\ StateOf("c1")[8] = "F"
    /\ read["c1"].field = "temperature"
    /\ read["c1"].out = Ok(175)

----------------------------------------------------------------------------
(* What the claims say of the calls together *)

ConfigurationCalls == {i \in DOMAIN calls : calls[i].op = "send_configuration"}

\* C8: whatever calls of send_configuration and status the callers
\* interleave, the registry stays the initial table, and two
\* send_configuration calls with the same arguments end the same way and
\* hand the same command to send_cmd, whatever ran before or between them.
C8_RegistryReadOnly ==
    /\ registry = DEVICE_COMMAND_PRESETS
    /\ \A i, j \in ConfigurationCalls :
        calls[i].args = calls[j].args
        => /\ calls[i].err = calls[j].err
           /\ calls[i].command = calls[j].command

\* two callers handed the same command for the same arguments, another call
\* between them
C8_Witness ==
    /\ Len(calls) = 3
    /\ calls[1].op = "send_configuration"
    /\ calls[3].op = "send_configuration"
    /\ calls[1].args = calls[3].args
    /\ calls[1].by # calls[3].by
    /\ calls[1].err = "none"
    /\ calls[1].command = gree_2 \o off_gree_2
    /\ calls[2].op = "status" \/ calls[2].args # calls[1].args

\* caller c takes a step of its call
Steps(c) == pc'[c] # pc[c] \/ read'[c] # read[c]

\* C9: a send_configuration call issues no transport call before it ends;
\* ending without error it issues exactly one, send_cmd with the one-element
\* list of the built command; ending by an exception it issues none. A
\* status call issues exactly one, get_model_and_state, and wraps the
\* response of that very call. Reading properties issues none.
C9_OneTransportCall ==
    [][\A c \in Callers :
        /\ (pc[c] \in {"send_configuration", "substitute"} /\ pc'[c] = "done")
           => IF result'[c].err = "none"
              THEN /\ Len(transport') = Len(transport) + 1
                   /\ SubSeq(transport', 1, Len(transport)) = transport
                   /\ transport'[Len(transport')].method = "send_cmd"
                   /\ transport'[Len(transport')].params
                        = <<result'[c].command>>
                   /\ result'[c].command # <<>>
              ELSE transport' = transport
        /\ (Steps(c) /\ pc'[c] \in {"send_configuration", "substitute", "idle"})
           => transport' = transport
        /\ (Steps(c) /\ pc[c] = "status" /\ pc'[c] = "status")
           => transport' = transport
        /\ (pc[c] = "idle" /\ pc'[c] = "status")
           => /\ Len(transport') = Len(transport) + 1
              /\ SubSeq(transport', 1, Len(transport)) = transport
              /\ transport'[Len(transport')].method = "get_model_and_state"
              /\ transport'[Len(transport')].params = <<>>
              /\ snapshot'[c] = transport'[Len(transport')].reply
      ]_vars

\* a command was sent, a call failed while encoding, and a status was asked
C9_Witness ==
    /\ \E i \in ConfigurationCalls : calls[i].err = "none"
    /\ \E i \in ConfigurationCalls : calls[i].err = "TypeError"
    /\ \E i \in DOMAIN calls : calls[i].op = "status"
    /\ Len(transport) = 2
    /\ \E c \in Callers : HasRead(c)

====
